---- MODULE Spec2Model ----
(***************************************************************************)
(* Model of setup-utpm (src/src/index.ts): one GitHub-Actions run that     *)
(* lists the upstream releases, resolves a version constraint, looks the   *)
(* version up in the runner's tool cache and, on a miss, downloads,        *)
(* extracts, verifies and registers the prebuilt binary.                   *)
(*                                                                         *)
(* Strings are modelled by their structure.  A tag or version string is a  *)
(* record [vs, body]: vs is the number of leading "v" characters, body is  *)
(* the rest, either a 4-tuple <<major, minor, patch, prerelease>> for text *)
(* of the form major.minor.patch[-prerelease] or Junk for anything else.   *)
(* A nullable JavaScript value is a sequence of length 0 (null, "" or      *)
(* undefined) or 1 (the value).                                            *)
(***************************************************************************)
EXTENDS Integers, Sequences, FiniteSets, TLC

VARIABLES
    host,         \* [platform, arch]: process.platform, process.arch
    toolCache,    \* the runner's tool cache: set of [key, dir]
    upstream,     \* release tags the upstream repository serves, in order
    token,        \* core.getInput("token") is non-empty
    versionInput, \* core.getInput("version")
    runNo,        \* number of the current run
    prev,         \* summary of the previous run, <<>> in the first one
    pc,           \* position of run()
    releases,     \* run(): releases (their tag_name fields)
    versionExact, \* run(): versionExact
    found,        \* run(): found
    possibleTargets, \* downloadAndCacheUtpm(): possibleTargets
    idx,          \* downloadAndCacheUtpm(): position of the for-of loop
    downloaded,   \* downloadAndCacheUtpm(): downloaded
    target,       \* downloadAndCacheUtpm(): target
    extracted,    \* downloadAndCacheUtpm(): extracted
    outputs,      \* core.setOutput: [cacheHit, version]
    pathAdded,    \* core.addPath
    failure,      \* core.setFailed message
    exitCode,     \* process exit status
    log           \* the run's external operations, in order

vars == <<host, toolCache, upstream, token, versionInput, runNo, prev, pc,
          releases, versionExact, found, possibleTargets, idx, downloaded,
          target, extracted, outputs, pathAdded, failure, exitCode, log>>

\* ------------------------------------------------------------------ bounds

MaxLen == 3
MaxRuns == 2

\* ------------------------------------------------------------ null values

Null == <<>>
Some(x) == <<x>>
IsNull(o) == o = <<>>
Val(o) == o[1]

\* ------------------------------------------------------- version strings

Junk == <<>>
Str(n, b) == [vs |-> n, body |-> b]

V020 == <<0, 2, 0, "">>
V030 == <<0, 3, 0, "">>
V030beta == <<0, 3, 0, "beta">>
V030alpha == <<0, 3, 0, "alpha">>
V100 == <<1, 0, 0, "">>
V120 == <<1, 2, 0, "">>

\* The release tags the resolver is exercised on: "v0.2.0", "v0.3.0",
\* "v0.3.0-beta", "v0.3.0-alpha", "v1.0.0", "1.2.0", "vv1.2.0",
\* "not-a-version", "vnot-a-version".
Tags ==
    { Str(1, V020), Str(1, V030), Str(1, V030beta), Str(1, V030alpha),
      Str(1, V100), Str(0, V120), Str(2, V120), Str(0, Junk), Str(1, Junk) }

\* String.prototype.replace(/^v/, ""): drops one leading "v", if any.
StripV(tag) ==
    IF tag.vs > 0 THEN [tag EXCEPT !.vs = @ - 1] ELSE tag

\* semver.valid: non-null when the text is [v]major.minor.patch[-pre].
SemverValid(s) ==
    s.vs <= 1 /\ Len(s.body) = 4

\* new SemVer(s): the parsed version of a valid string.
Parse(s) == s.body

\* semver.clean, as the tool cache applies it to its version keys.
Clean(s) == Str(0, s.body)

\* Precedence of prerelease identifiers: numeric "0" below alphanumerics,
\* alphanumerics in ASCII order, and no prerelease above any prerelease.
PreKey(p) ==
    CASE p = "0" -> 0
      [] p = "alpha" -> 1
      [] p = "beta" -> 2
      [] OTHER -> 3

\* SemVer.compare: -1, 0 or 1.
Compare(a, b) ==
    CASE a[1] # b[1] -> IF a[1] < b[1] THEN -1 ELSE 1
      [] a[2] # b[2] -> IF a[2] < b[2] THEN -1 ELSE 1
      [] a[3] # b[3] -> IF a[3] < b[3] THEN -1 ELSE 1
      [] PreKey(a[4]) # PreKey(b[4]) ->
            IF PreKey(a[4]) < PreKey(b[4]) THEN -1 ELSE 1
      [] OTHER -> 0

\* ------------------------------------------------------------ constraints

Con(o, v) == [op |-> o, ver |-> v]
Latest == Con("latest", V020)
Empty == Con("empty", V020)
Invalid == Con("bad", V020)

\* "latest", "*", "0.3.0", "0.3.0-beta", "^0.2.0", "^0.3.0-alpha",
\* "~1.0.0", ">=0.3.0", "not a range".
Constraints ==
    { Latest, Con("any", V020), Con("eq", V030), Con("eq", V030beta),
      Con("caret", V020), Con("caret", V030alpha), Con("tilde", V100),
      Con("gte", V030), Invalid }

\* new Range(range) throws for text that is no range expression; the
\* word "latest" is none.
RangeValid(c) == c.op \in {"any", "empty", "eq", "caret", "tilde", "gte"}

CaretUpper(v) ==
    IF v[1] > 0 THEN <<v[1] + 1, 0, 0, "0">>
    ELSE IF v[2] > 0 THEN <<0, v[2] + 1, 0, "0">>
    ELSE <<0, 0, v[3] + 1, "0">>

\* The comparator set a range expression desugars to; "*" and "" have the
\* single comparator ANY, which constrains nothing.
Comparators(c) ==
    CASE c.op = "eq" -> { [cmp |-> "=", ver |-> c.ver] }
      [] c.op = "caret" ->
            { [cmp |-> ">=", ver |-> c.ver],
              [cmp |-> "<", ver |-> CaretUpper(c.ver)] }
      [] c.op = "tilde" ->
            { [cmp |-> ">=", ver |-> c.ver],
              [cmp |-> "<", ver |-> <<c.ver[1], c.ver[2] + 1, 0, "0">>] }
      [] c.op = "gte" -> { [cmp |-> ">=", ver |-> c.ver] }
      [] OTHER -> {}

CmpTest(k, v) ==
    CASE k.cmp = "=" -> Compare(v, k.ver) = 0
      [] k.cmp = ">=" -> Compare(v, k.ver) >= 0
      [] OTHER -> Compare(v, k.ver) < 0

\* Range.test without includePrerelease: every comparator holds, and a
\* version with a prerelease is accepted only if some comparator carries a
\* prerelease on the same major.minor.patch.
RangeTest(c, s) ==
    /\ SemverValid(s)
    /\ \A k \in Comparators(c) : CmpTest(k, Parse(s))
    /\ Parse(s)[4] # "" =>
          \E k \in Comparators(c) :
              /\ k.ver[4] # ""
              /\ k.ver[1] = Parse(s)[1]
              /\ k.ver[2] = Parse(s)[2]
              /\ k.ver[3] = Parse(s)[3]

\* The forEach of semver.maxSatisfying: keeps the first greatest string.
RECURSIVE MaxFold(_, _, _)
MaxFold(versions, c, max) ==
    IF versions = <<>> THEN max
    ELSE LET v == Head(versions)
             take == /\ RangeTest(c, v)
                     /\ \/ IsNull(max)
                        \/ Compare(Parse(Val(max)), Parse(v)) = -1
         IN MaxFold(Tail(versions), c, IF take THEN Some(v) ELSE max)

RECURSIVE MinFold(_, _, _)
MinFold(versions, c, min) ==
    IF versions = <<>> THEN min
    ELSE LET v == Head(versions)
             take == /\ RangeTest(c, v)
                     /\ \/ IsNull(min)
                        \/ Compare(Parse(Val(min)), Parse(v)) = 1
         IN MinFold(Tail(versions), c, IF take THEN Some(v) ELSE min)

MinSatisfying(versions, c) ==
    IF RangeValid(c) THEN MinFold(versions, c, Null) ELSE Null

\* semver.maxSatisfying(versions, range): null for an invalid range.
MaxSatisfying(versions, c) ==
    IF RangeValid(c) THEN MaxFold(versions, c, Null) ELSE Null

RECURSIVE MapStrip(_)
MapStrip(tags) ==
    IF tags = <<>> THEN <<>>
    ELSE <<StripV(Head(tags))>> \o MapStrip(Tail(tags))

\* releases.map(strip).filter(semver.valid)
ValidVersions(tags) == SelectSeq(MapStrip(tags), SemverValid)

\* version === "latest" ? "*" : version
RangeOf(c) == IF c.op = "latest" THEN Con("any", c.ver) ELSE c

\* getExactVersion's value: the resolved string, or null.
getExactVersion(tags, c) == MaxSatisfying(ValidVersions(tags), RangeOf(c))

\* core.getInput("version") || "latest"
DefaultVersion(c) == IF c.op = "empty" THEN Latest ELSE c

\* ------------------------------------------------------ platform mapping

Platforms == {"darwin", "linux", "win32", "freebsd"}
Archs == {"x64", "arm64", "ia32"}
Hosts == [platform : Platforms, arch : Archs]

TargetsNoLinuxArm(platform, arch) ==
    CASE platform = "darwin" /\ arch = "arm64" ->
            Some(<<"aarch64-apple-darwin">>)
      [] platform = "darwin" /\ arch = "x64" ->
            Some(<<"x86_64-apple-darwin">>)
      [] platform = "linux" /\ arch = "x64" ->
            Some(<<"x86_64-unknown-linux-musl", "x86_64-unknown-linux-gnu">>)
      [] platform = "win32" /\ arch = "x64" ->
            Some(<<"x86_64-pc-windows-msvc">>)
      [] platform = "win32" /\ arch = "arm64" ->
            Some(<<"aarch64-pc-windows-msvc">>)
      [] OTHER -> Null

\* targets[[process.platform, process.arch].join(",")], undefined (null)
\* for a key the table does not hold.
Targets(platform, arch) ==
    CASE platform = "darwin" /\ arch = "arm64" ->
            Some(<<"aarch64-apple-darwin">>)
      [] platform = "darwin" /\ arch = "x64" ->
            Some(<<"x86_64-apple-darwin">>)
      [] platform = "linux" /\ arch = "x64" ->
            Some(<<"x86_64-unknown-linux-musl", "x86_64-unknown-linux-gnu">>)
      [] platform = "linux" /\ arch = "arm64" ->
            Some(<<"aarch64-unknown-linux-gnu">>)
      [] platform = "win32" /\ arch = "x64" ->
            Some(<<"x86_64-pc-windows-msvc">>)
      [] platform = "win32" /\ arch = "arm64" ->
            Some(<<"aarch64-pc-windows-msvc">>)
      [] OTHER -> Null

binaryNamePosix(platform) == "utpm"

binaryName(platform) == IF platform = "win32" THEN "utpm.exe" ELSE "utpm"

\* What an archive may hold at its top level.
TopLevelNames == {"utpm", "utpm.exe"}

\* ---------------------------------------------------------- tool cache

CachePath(key) == [kind |-> "cache", key |-> key]

tcFindRaw(cacheState, version) ==
    IF \E e \in cacheState : e.key = version
    THEN Some(CachePath(version))
    ELSE Null

\* tc.find("utpm", version): the cache path of the cleaned version when an
\* entry is registered under it, "" (null) otherwise.
tcFind(cacheState, version) ==
    IF \E e \in cacheState : e.key = Clean(version)
    THEN Some(CachePath(Clean(version)))
    ELSE Null

\* tc.cacheDir(dir, "utpm", version): the entry of the cleaned version is
\* replaced by the directory.
tcCacheDir(cacheState, dir, version) ==
    { e \in cacheState : e.key # Clean(version) }
        \cup { [key |-> Clean(version), dir |-> dir] }

\* -------------------------------------------------------------- the run

Ev(o, n, r) == [op |-> o, n |-> n, res |-> r]

File(cand, state) == [cand |-> cand, state |-> state, zip |-> FALSE]

NoOutputs == [cacheHit |-> "unset", version |-> Null]

BoolStr(b) == IF b THEN "true" ELSE "false"

\* Release lists and version inputs of the runs: [], ["v1.0.0", "1.2.0"],
\* ["v0.2.0", "v0.3.0", "v0.3.0-beta"], ["not-a-version", "vv1.2.0"];
\* "", "^0.2.0", "not a range".
Published ==
    { <<>>, <<Str(1, V100), Str(0, V120)>>,
      <<Str(1, V020), Str(1, V030), Str(1, V030beta)>>,
      <<Str(0, Junk), Str(2, V120)>> }
RunConstraints == { Empty, Con("caret", V020), Invalid }

RunStart ==
    /\ pc = "start"
    /\ releases = <<>>
    /\ versionExact = Null
    /\ found = Null
    /\ possibleTargets = <<>>
    /\ idx = 0
    /\ downloaded = Null
    /\ target = Null
    /\ extracted = Null
    /\ outputs = NoOutputs
    /\ pathAdded = Null
    /\ failure = Null
    /\ exitCode = 0
    /\ log = <<>>

\* The first run of the action on a runner with an empty tool cache.  The
\* host is the runner's and stays the same for its later runs (the tool
\* cache keys its entries by architecture too, which is the runner's).
Init ==
    /\ host \in Hosts
    /\ toolCache = {}
    /\ upstream \in Published
    /\ token \in BOOLEAN
    /\ versionInput \in RunConstraints
    /\ runNo = 1
    /\ prev = Null
    /\ RunStart

env == <<host, toolCache, upstream, token, versionInput, runNo, prev>>

\* core.setFailed(msg); process.exit(1)
Fail(msg) ==
    /\ failure' = Some(msg)
    /\ exitCode' = 1
    /\ pc' = "exited"

\* listReleases with an octokit: octokit.paginate returns every page.
ListReleasesAuth ==
    /\ pc = "start" /\ token
    /\ releases' = upstream
    /\ log' = Append(log, Ev("listAuth", 0, "ok"))
    /\ pc' = "resolve"
    /\ UNCHANGED <<env, versionExact, found, possibleTargets, idx,
                   downloaded, target, extracted, outputs, pathAdded,
                   failure, exitCode>>

\* octokit.paginate rejects: the exception reaches run's catch.
ListReleasesAuthThrows ==
    /\ pc = "start" /\ token
    /\ log' = Append(log, Ev("listAuth", 0, "throw"))
    /\ pc' = "catch"
    /\ UNCHANGED <<env, releases, versionExact, found, possibleTargets, idx,
                   downloaded, target, extracted, outputs, pathAdded,
                   failure, exitCode>>

\* listReleases without a token: download and JSON.parse succeed.
ListReleasesUnauth ==
    /\ pc = "start" /\ ~token
    /\ releases' = upstream
    /\ log' = Append(log, Ev("listUnauth", 0, "ok"))
    /\ pc' = "resolve"
    /\ UNCHANGED <<env, versionExact, found, possibleTargets, idx,
                   downloaded, target, extracted, outputs, pathAdded,
                   failure, exitCode>>

\* tc.downloadTool(releasesUrl) rejects, outside listReleases' own try.
ListReleasesUnauthThrows ==
    /\ pc = "start" /\ ~token
    /\ log' = Append(log, Ev("listUnauth", 0, "throw"))
    /\ pc' = "catch"
    /\ UNCHANGED <<env, releases, versionExact, found, possibleTargets, idx,
                   downloaded, target, extracted, outputs, pathAdded,
                   failure, exitCode>>

\* The response is downloaded and JSON.parse throws.
ListReleasesParseFail ==
    /\ pc = "start" /\ ~token
    /\ log' = Append(log, Ev("listUnauth", 0, "unparseable"))
    /\ Fail("parse")
    /\ UNCHANGED <<env, releases, versionExact, found, possibleTargets, idx,
                   downloaded, target, extracted, outputs, pathAdded>>

GetExactVersionPublishes ==
    /\ pc = "resolve"
    /\ LET r == getExactVersion(releases, DefaultVersion(versionInput))
       IN IF IsNull(r)
          THEN Fail("resolve") /\ UNCHANGED <<versionExact, outputs>>
          ELSE /\ versionExact' = r
               /\ outputs' = [outputs EXCEPT !.version = r]
               /\ pc' = "find"
               /\ UNCHANGED <<failure, exitCode>>
    /\ UNCHANGED <<env, releases, found, possibleTargets, idx, downloaded,
                   target, extracted, pathAdded, log>>

\* run(): version = getInput("version") || "latest"; getExactVersion.
GetExactVersion ==
    /\ pc = "resolve"
    /\ LET r == getExactVersion(releases, DefaultVersion(versionInput))
       IN IF IsNull(r)
          THEN Fail("resolve") /\ UNCHANGED versionExact
          ELSE /\ versionExact' = r
               /\ pc' = "find"
               /\ UNCHANGED <<failure, exitCode>>
    /\ UNCHANGED <<env, releases, found, possibleTargets, idx, downloaded,
                   target, extracted, outputs, pathAdded, log>>

FindInCacheNoSkip ==
    /\ pc = "find"
    /\ LET f == tcFind(toolCache, Val(versionExact))
       IN /\ found' = f
          /\ outputs' = [outputs EXCEPT !.cacheHit = BoolStr(~IsNull(f))]
          /\ pc' = "platform"
    /\ log' = Append(log, Ev("find", 0, "ok"))
    /\ UNCHANGED <<env, releases, versionExact, possibleTargets, idx,
                   downloaded, target, extracted, pathAdded, failure,
                   exitCode>>

\* run(): found = tc.find(...); setOutput("cache-hit", !!found); on a hit
\* the download is skipped.
FindInCache ==
    /\ pc = "find"
    /\ LET f == tcFind(toolCache, Val(versionExact))
       IN /\ found' = f
          /\ outputs' = [outputs EXCEPT !.cacheHit = BoolStr(~IsNull(f))]
          /\ pc' = IF IsNull(f) THEN "platform" ELSE "publish"
    /\ log' = Append(log, Ev("find", 0, "ok"))
    /\ UNCHANGED <<env, releases, versionExact, possibleTargets, idx,
                   downloaded, target, extracted, pathAdded, failure,
                   exitCode>>

\* downloadAndCacheUtpm, up to the loop: the platform lookup.
PlatformLookup ==
    /\ pc = "platform"
    /\ LET t == Targets(host.platform, host.arch)
       IN IF IsNull(t)
          THEN Fail("unsupported") /\ UNCHANGED <<possibleTargets, idx>>
          ELSE /\ possibleTargets' = Val(t)
               /\ idx' = 1
               /\ pc' = "loop"
               /\ UNCHANGED <<failure, exitCode>>
    /\ UNCHANGED <<env, releases, versionExact, found, downloaded, target,
                   extracted, outputs, pathAdded, log>>

\* One iteration: tc.downloadTool rejects; catch, continue.
DownloadThrows ==
    /\ pc = "loop" /\ idx <= Len(possibleTargets)
    /\ log' = Append(log, Ev("download", idx, "throw"))
    /\ idx' = idx + 1
    /\ UNCHANGED <<env, pc, releases, versionExact, found, possibleTargets,
                   downloaded, target, extracted, outputs, pathAdded,
                   failure, exitCode>>

\* One iteration: the download resolves to a path whose file is missing
\* or empty; downloaded is assigned, target is not.
DownloadUnverified ==
    /\ pc = "loop" /\ idx <= Len(possibleTargets)
    /\ \E st \in {"missing", "empty"} :
          /\ downloaded' = Some(File(idx, st))
          /\ log' = Append(log, Ev("download", idx, st))
    /\ idx' = idx + 1
    /\ UNCHANGED <<env, pc, releases, versionExact, found, possibleTargets,
                   target, extracted, outputs, pathAdded, failure, exitCode>>

DownloadVerifiedNoBreak ==
    /\ pc = "loop" /\ idx <= Len(possibleTargets)
    /\ downloaded' = Some(File(idx, "ok"))
    /\ target' = Some(possibleTargets[idx])
    /\ log' = Append(log, Ev("download", idx, "ok"))
    /\ idx' = idx + 1
    /\ UNCHANGED <<env, pc, releases, versionExact, found, possibleTargets,
                   extracted, outputs, pathAdded, failure, exitCode>>

\* One iteration: the download is verified; target is assigned; break.
DownloadVerified ==
    /\ pc = "loop" /\ idx <= Len(possibleTargets)
    /\ downloaded' = Some(File(idx, "ok"))
    /\ target' = Some(possibleTargets[idx])
    /\ log' = Append(log, Ev("download", idx, "ok"))
    /\ pc' = "check"
    /\ UNCHANGED <<env, releases, versionExact, found, possibleTargets, idx,
                   extracted, outputs, pathAdded, failure, exitCode>>

AcquisitionFailedNoTarget(d, t) == IsNull(d)

\* !downloaded || !target
AcquisitionFailed(d, t) == IsNull(d) \/ IsNull(t)

\* After the loop (left by break or exhausted).
CheckAcquired ==
    /\ \/ pc = "check"
       \/ pc = "loop" /\ idx > Len(possibleTargets)
    /\ IF AcquisitionFailed(downloaded, target)
       THEN Fail("download")
       ELSE pc' = "extract" /\ UNCHANGED <<failure, exitCode>>
    /\ UNCHANGED <<env, releases, versionExact, found, possibleTargets, idx,
                   downloaded, target, extracted, outputs, pathAdded, log>>

\* On win32 a path without ".zip" is renamed to carry it.
Renamed(platform, file) ==
    IF platform = "win32" /\ ~file.zip
    THEN [file EXCEPT !.zip = TRUE]
    ELSE file

ExtractOp(platform) ==
    IF platform = "win32" THEN "extractZip" ELSE "extractTar"

\* tc.extractZip / tc.extractTar returns the extraction directory.
Extract ==
    /\ pc = "extract"
    /\ LET file == Renamed(host.platform, Val(downloaded))
       IN /\ downloaded' = Some(file)
          /\ \E names \in SUBSET TopLevelNames :
                extracted' = Some([src |-> file, files |-> names])
          /\ log' = Append(log, Ev(ExtractOp(host.platform), file.cand, "ok"))
    /\ pc' = "binary"
    /\ UNCHANGED <<env, releases, versionExact, found, possibleTargets, idx,
                   target, outputs, pathAdded, failure, exitCode>>

\* The extraction rejects (the file is no archive).
ExtractThrows ==
    /\ pc = "extract"
    /\ LET file == Renamed(host.platform, Val(downloaded))
       IN /\ downloaded' = Some(file)
          /\ log' = Append(log,
                           Ev(ExtractOp(host.platform), file.cand, "throw"))
    /\ pc' = "catch"
    /\ UNCHANGED <<env, releases, versionExact, found, possibleTargets, idx,
                   target, extracted, outputs, pathAdded, failure, exitCode>>

\* fs.existsSync(path.join(extracted, binaryName))
BinaryPresent(platform, dir) == binaryName(platform) \in dir.files

CheckBinary ==
    /\ pc = "binary"
    /\ IF ~BinaryPresent(host.platform, Val(extracted))
       THEN Fail("binary")
       ELSE pc' = "cacheDir" /\ UNCHANGED <<failure, exitCode>>
    /\ UNCHANGED <<env, releases, versionExact, found, possibleTargets, idx,
                   downloaded, target, extracted, outputs, pathAdded, log>>

\* tc.cacheDir registers the directory and returns the cache path, which
\* downloadAndCacheUtpm returns and run() assigns to found.
CacheDir ==
    /\ pc = "cacheDir"
    /\ toolCache' = tcCacheDir(toolCache, Val(extracted), Val(versionExact))
    /\ found' = Some(CachePath(Clean(Val(versionExact))))
    /\ log' = Append(log, Ev("cacheDir", 0, "ok"))
    /\ pc' = "publish"
    /\ UNCHANGED <<host, upstream, token, versionInput, runNo, prev,
                   releases, versionExact, possibleTargets, idx, downloaded,
                   target, extracted, outputs, pathAdded, failure, exitCode>>

\* tc.cacheDir rejects (the copy fails).
CacheDirThrows ==
    /\ pc = "cacheDir"
    /\ log' = Append(log, Ev("cacheDir", 0, "throw"))
    /\ pc' = "catch"
    /\ UNCHANGED <<env, releases, versionExact, found, possibleTargets, idx,
                   downloaded, target, extracted, outputs, pathAdded,
                   failure, exitCode>>

\* run(): core.addPath(found); core.setOutput("version", versionExact).
Publish ==
    /\ pc = "publish"
    /\ pathAdded' = found
    /\ outputs' = [outputs EXCEPT !.version = versionExact]
    /\ pc' = "done"
    /\ UNCHANGED <<env, releases, versionExact, found, possibleTargets, idx,
                   downloaded, target, extracted, failure, exitCode, log>>

CatchSilent ==
    /\ pc = "catch"
    /\ pc' = "failed"
    /\ UNCHANGED <<env, releases, versionExact, found, possibleTargets, idx,
                   downloaded, target, extracted, outputs, pathAdded, log,
                   failure, exitCode>>

\* run()'s catch: core.setFailed, which sets the failing exit status.
Catch ==
    /\ pc = "catch"
    /\ failure' = Some("action-failed")
    /\ exitCode' = 1
    /\ pc' = "failed"
    /\ UNCHANGED <<env, releases, versionExact, found, possibleTargets, idx,
                   downloaded, target, extracted, outputs, pathAdded, log>>

Ended == pc \in {"done", "exited", "failed"}

Has(o, r) == \E i \in 1..Len(log) : log[i].op = o /\ log[i].res = r

\* What a later run of the job can know of this one.
Summary ==
    [outcome |-> pc, version |-> outputs.version,
     cacheHit |-> outputs.cacheHit, upstream |-> upstream,
     versionInput |-> versionInput,
     populated |-> Has("cacheDir", "ok") /\ Cardinality(toolCache) = 1]

\* The next run of the action on the same runner: a new process, new
\* inputs, the same tool cache.
StartRun ==
    /\ Ended
    /\ runNo < MaxRuns
    /\ runNo' = runNo + 1
    /\ prev' = Some(Summary)
    /\ upstream' \in Published
    /\ token' \in BOOLEAN
    /\ versionInput' \in RunConstraints
    /\ pc' = "start"
    /\ releases' = <<>>
    /\ versionExact' = Null
    /\ found' = Null
    /\ possibleTargets' = <<>>
    /\ idx' = 0
    /\ downloaded' = Null
    /\ target' = Null
    /\ extracted' = Null
    /\ outputs' = NoOutputs
    /\ pathAdded' = Null
    /\ failure' = Null
    /\ exitCode' = 0
    /\ log' = <<>>
    /\ UNCHANGED <<host, toolCache>>

Next ==
    \/ ListReleasesAuth
    \/ ListReleasesAuthThrows
    \/ ListReleasesUnauth
    \/ ListReleasesUnauthThrows
    \/ ListReleasesParseFail
    \/ GetExactVersion
    \/ FindInCache
    \/ PlatformLookup
    \/ DownloadThrows
    \/ DownloadUnverified
    \/ DownloadVerified
    \/ CheckAcquired
    \/ Extract
    \/ ExtractThrows
    \/ CheckBinary
    \/ CacheDir
    \/ CacheDirThrows
    \/ Publish
    \/ Catch
    \/ StartRun

Spec == Init /\ [][Next]_vars

\* ------------------------------------------------ the resolver on its own

RECURSIVE Lists(_)
Lists(n) ==
    IF n = 0 THEN { <<>> }
    ELSE Lists(n - 1) \cup
         { Append(l, t) : l \in { m \in Lists(n - 1) : Len(m) = n - 1 },
                          t \in Tags }

\* run() at the call of getExactVersion, for every release list of at most
\* MaxLen tags and every constraint.
InitResolve ==
    /\ host = [platform |-> "linux", arch |-> "x64"]
    /\ toolCache = {}
    /\ upstream \in Lists(MaxLen)
    /\ token = TRUE
    /\ versionInput \in Constraints
    /\ runNo = 1
    /\ prev = Null
    /\ pc = "resolve"
    /\ releases = upstream
    /\ versionExact = Null
    /\ found = Null
    /\ possibleTargets = <<>>
    /\ idx = 0
    /\ downloaded = Null
    /\ target = Null
    /\ extracted = Null
    /\ outputs = NoOutputs
    /\ pathAdded = Null
    /\ failure = Null
    /\ exitCode = 0
    /\ log = <<Ev("listAuth", 0, "ok")>>

NextResolve == GetExactVersion

SpecResolve == InitResolve /\ [][NextResolve]_vars

\* ---------------------------------------------------------- properties

\* The tags of the release list that are valid versions once one leading
\* "v" is dropped.
ValidTags == { i \in 1..Len(releases) : SemverValid(StripV(releases[i])) }

\* The range a constraint string denotes: "latest" denotes "*".
Denoted(c) == IF c = Latest THEN Con("any", c.ver) ELSE c

\* The valid tags that satisfy the constraint of the run.
Candidates ==
    { i \in ValidTags :
        /\ RangeValid(Denoted(DefaultVersion(versionInput)))
        /\ RangeTest(Denoted(DefaultVersion(versionInput)),
                     StripV(releases[i])) }

IsGreatest(s, among) ==
    /\ \E i \in among : s = StripV(releases[i])
    /\ \A j \in among : Compare(Parse(StripV(releases[j])), Parse(s)) <= 0

IsValidTag(t) == SemverValid(StripV(t))

\* C1: getExactVersion returns the greatest, by semantic-version
\* precedence, of the tags that are valid versions (after the leading "v"
\* is dropped) and satisfy the constraint; when there is none (empty list,
\* only invalid tags, no match, invalid constraint) it reports the
\* resolution failure and the process exits; the invalid tags of the list
\* do not change the result.
C1_ResolvesGreatestSatisfying ==
    /\ pc # "resolve" =>
          IF Candidates = {}
          THEN /\ pc = "exited"
               /\ failure = Some("resolve")
               /\ exitCode = 1
               /\ versionExact = Null
          ELSE /\ pc = "find"
               /\ failure = Null
               /\ ~IsNull(versionExact)
               /\ IsGreatest(Val(versionExact), Candidates)
    /\ getExactVersion(releases, DefaultVersion(versionInput))
          = getExactVersion(SelectSeq(releases, IsValidTag),
                            DefaultVersion(versionInput))

\* C1 witness: a three-tag list with an invalid tag whose greatest
\* satisfying version, under a caret range, is the last tag.
C1_Witness ==
    /\ pc = "find"
    /\ Len(releases) = 3
    /\ versionInput.op = "caret"
    /\ \E i \in 1..2 : ~IsValidTag(releases[i])
    /\ Val(versionExact) = StripV(releases[3])
    /\ Cardinality(Candidates) = 2

\* C2: under "latest" every valid published version is accepted, so the
\* greatest valid version is returned whenever the list holds a valid
\* version, pre-releases included, and the resolution fails only when it
\* holds none.
C2_LatestAcceptsEveryValid ==
    (pc # "resolve" /\ DefaultVersion(versionInput) = Latest) =>
        IF ValidTags = {}
        THEN pc = "exited" /\ failure = Some("resolve")
        ELSE /\ pc = "find"
             /\ ~IsNull(versionExact)
             /\ IsGreatest(Val(versionExact), ValidTags)

Downloads == SelectSeq(log, LAMBDA e : e.op = "download")

IsNetwork(e) == e.op \in {"listAuth", "listUnauth", "download"}

IsAcquisition(e) ==
    e.op \in {"download", "extractZip", "extractTar", "cacheDir"}

Key == Clean(Val(versionExact))

Registered(key) == \E e \in toolCache : e.key = key

\* C3: a run that finds (utpm, version) in the tool cache publishes
\* cache-hit = true, performs no download, extraction or registration, and
\* adds the cached path to the execution path; a run that does not find it
\* publishes cache-hit = false and adds the path the registration
\* returned.  A run on an empty cache followed by a run with the same
\* release list and constraint publish the same version, the second with
\* cache-hit = true.
C3_CacheHit ==
    /\ outputs.cacheHit = "true" =>
          /\ \A i \in 1..Len(log) : ~IsAcquisition(log[i])
          /\ Registered(Key)
          /\ found = Some(CachePath(Key))
          /\ pc \in {"publish", "done"}
          /\ pc = "done" => pathAdded = Some(CachePath(Key))
    /\ outputs.cacheHit = "false" =>
          /\ Registered(Key) => Has("cacheDir", "ok")
          /\ pc = "done" =>
                /\ log[Len(log)] = Ev("cacheDir", 0, "ok")
                /\ Registered(Key)
                /\ pathAdded = Some(CachePath(Key))
    /\ (/\ pc = "done"
        /\ ~IsNull(prev)
        /\ Val(prev).outcome = "done"
        /\ Val(prev).populated
        /\ Val(prev).upstream = upstream
        /\ Val(prev).versionInput = versionInput) =>
          /\ outputs.version = Val(prev).version
          /\ outputs.cacheHit = "true"
          /\ Val(prev).cacheHit = "false"

\* C3 witness: the second of two runs with the same inputs, the first on
\* an empty cache, has succeeded from the cache.
C3_Witness ==
    /\ pc = "done"
    /\ ~IsNull(prev)
    /\ Val(prev).populated
    /\ Val(prev).upstream = upstream
    /\ Val(prev).versionInput = versionInput
    /\ outputs.cacheHit = "true"
    /\ pathAdded = Some(CachePath(Key))

\* C4 as stated: a run whose version is in the tool cache performs no
\* network request at all, neither the release listing nor a download.
C4_NoNetworkOnHit ==
    outputs.cacheHit = "true" =>
        \A i \in 1..Len(log) : ~IsNetwork(log[i])

\* C4 amended: a run whose resolved version is in the tool cache performs
\* exactly one network request, the release-listing fetch, which precedes
\* the cache lookup, and no archive download.
C4_OnlyListingOnHit ==
    outputs.cacheHit = "true" =>
        /\ Len(log) = 2
        /\ log[1].op \in {"listAuth", "listUnauth"}
        /\ log[1].res = "ok"
        /\ log[2] = Ev("find", 0, "ok")
        /\ Cardinality({ i \in 1..Len(log) : IsNetwork(log[i]) }) = 1

\* C4 witness: a run has succeeded from the cache.
C4_Witness ==
    /\ pc = "done"
    /\ outputs.cacheHit = "true"
    /\ exitCode = 0
    /\ Len(log) = 2

Attempted == possibleTargets # <<>> /\ pc \notin {"loop", "check"}

\* C5: the candidates are attempted in list order, each at most once; the
\* chosen target is the first candidate whose download is verified, and
\* nothing is attempted after it; the acquisition failure is reported
\* exactly when every candidate failed.
C5_Fallback ==
    /\ Len(Downloads) <= Len(possibleTargets)
    /\ \A k \in 1..Len(Downloads) :
          /\ Downloads[k].n = k
          /\ Downloads[k].res = "ok" =>
                /\ k = Len(Downloads)
                /\ target = Some(possibleTargets[k])
    /\ ~IsNull(target) =>
          /\ Downloads # <<>>
          /\ Downloads[Len(Downloads)].res = "ok"
    /\ Attempted =>
          (failure = Some("download")
              <=> /\ Len(Downloads) = Len(possibleTargets)
                  /\ \A k \in 1..Len(Downloads) : Downloads[k].res # "ok")
    /\ failure = Some("download") => Attempted

\* C5 witness: the first candidate's download threw, the second was
\* verified and chosen.
C5_Witness ==
    /\ pc = "extract"
    /\ Len(Downloads) = 2
    /\ Downloads[1].res = "throw"
    /\ Downloads[2].res = "ok"
    /\ target = Some("x86_64-unknown-linux-gnu")

RunFailed == pc \in {"catch", "exited", "failed"}

\* C6 as stated: when a run fails, neither output has been set and the
\* execution path has not been extended.
C6_NothingPublishedOnFailure ==
    RunFailed =>
        /\ outputs.cacheHit = "unset"
        /\ outputs.version = Null
        /\ pathAdded = Null

\* C6 amended: when a run fails, the version output has not been set and
\* the execution path has not been extended; the cache-hit output has been
\* set, to false, exactly when the failure came after the cache lookup.
C6_NoVersionNoPathOnFailure ==
    RunFailed =>
        /\ outputs.version = Null
        /\ pathAdded = Null
        /\ outputs.cacheHit # "true"
        /\ outputs.cacheHit = "false" <=> Has("find", "ok")
        /\ outputs.cacheHit = "unset" <=>
              \/ failure \in {Some("parse"), Some("resolve")}
              \/ log[Len(log)].op \in {"listAuth", "listUnauth"}

\* C6 witness: a run failed on a missing binary after publishing
\* cache-hit = false.
C6_Witness ==
    /\ pc = "exited"
    /\ failure = Some("binary")
    /\ outputs.cacheHit = "false"

ExpectedBinary == IF host.platform = "win32" THEN "utpm.exe" ELSE "utpm"

\* C7: the tool cache is written only after the expected binary (utpm.exe
\* on win32, utpm otherwise) was found at the top level of the run's
\* extraction output; a run whose archive lacks it fails and registers
\* nothing, so every cache entry holds the binary.
C7_CacheOnlyAfterBinary ==
    /\ \A e \in toolCache : ExpectedBinary \in e.dir.files
    /\ (\E i \in 1..Len(log) : log[i].op = "cacheDir") =>
          /\ ~IsNull(extracted)
          /\ ExpectedBinary \in Val(extracted).files
    /\ Has("cacheDir", "ok") =>
          [key |-> Key, dir |-> Val(extracted)] \in toolCache
    /\ (~IsNull(extracted) /\ ExpectedBinary \notin Val(extracted).files) =>
          /\ pc \in {"binary", "exited"}
          /\ pc = "exited" => failure = Some("binary")
          /\ ~Registered(Key)

\* C7 witness: a run whose archive lacks the binary has failed, on a
\* runner whose cache an earlier run populated.
C7_Witness ==
    /\ pc = "exited"
    /\ failure = Some("binary")
    /\ host.platform = "win32"
    /\ "utpm" \in Val(extracted).files
    /\ "utpm.exe" \notin Val(extracted).files
    /\ toolCache # {}

Declared ==
    { [platform |-> "darwin", arch |-> "arm64"],
      [platform |-> "darwin", arch |-> "x64"],
      [platform |-> "linux", arch |-> "x64"],
      [platform |-> "linux", arch |-> "arm64"],
      [platform |-> "win32", arch |-> "x64"],
      [platform |-> "win32", arch |-> "arm64"] }

LookedUp == outputs.cacheHit = "false" /\ pc # "platform"

\* C8: the platform lookup yields a non-empty ordered list for each of the
\* six declared pairs; on any other pair a run that reaches acquisition
\* fails as unsupported before any download, never with an empty list.
C8_PlatformMapping ==
    /\ (LookedUp /\ host \in Declared) =>
          /\ Len(possibleTargets) >= 1
          /\ failure # Some("unsupported")
    /\ (LookedUp /\ host = [platform |-> "linux", arch |-> "x64"]) =>
          possibleTargets = <<"x86_64-unknown-linux-musl",
                              "x86_64-unknown-linux-gnu">>
    /\ (LookedUp /\ host \notin Declared) =>
          /\ pc = "exited"
          /\ failure = Some("unsupported")
          /\ exitCode = 1
          /\ possibleTargets = <<>>
          /\ Downloads = <<>>
    /\ pc \in {"loop", "check", "extract"} =>
          host \in Declared /\ possibleTargets # <<>>

\* C8 witness: a run on linux/ia32 has failed as unsupported.
C8_Witness ==
    /\ pc = "exited"
    /\ failure = Some("unsupported")
    /\ host = [platform |-> "linux", arch |-> "ia32"]

Threw == \E i \in 1..Len(log) : log[i].res = "throw" /\ log[i].op # "download"

\* C9: a run ends either in success, with the version output published
\* and the execution path extended, or in failure, with a message reported
\* and the failing status set; an exception of any step reaches run's
\* catch and is reported, and nothing is executed after a failure.
C9_TwoOutcomes ==
    /\ pc = "done" =>
          /\ failure = Null
          /\ exitCode = 0
          /\ ~IsNull(versionExact)
          /\ outputs.version = versionExact
          /\ ~IsNull(pathAdded)
    /\ pc \in {"exited", "failed"} =>
          /\ ~IsNull(failure)
          /\ exitCode = 1
          /\ outputs.version = Null
          /\ pathAdded = Null
    /\ ~Ended => failure = Null /\ exitCode = 0
    /\ Threw =>
          /\ log[Len(log)].res = "throw"
          /\ Cardinality({ i \in 1..Len(log) :
                             log[i].res = "throw" /\ log[i].op # "download" })
                = 1
          /\ pc \in {"catch", "failed"}
          /\ pc = "failed" => failure = Some("action-failed")
    /\ pc \in {"catch", "failed"} => Threw
    /\ \A i, j \in 1..Len(log) :
          (i # j /\ log[i].op = log[j].op) => log[i].op = "download"
    /\ failure = Some("parse") => log = <<Ev("listUnauth", 0, "unparseable")>>
    /\ failure = Some("resolve") => Len(log) = 1
    /\ failure = Some("unsupported") => log[Len(log)].op = "find"
    /\ failure = Some("download") => log[Len(log)].op \in {"find", "download"}
    /\ failure = Some("binary") =>
          log[Len(log)].op \in {"extractZip", "extractTar"}

\* C9 witness: the unauthenticated release-list fetch threw and the run
\* ended with the failure reported.
C9_Witness ==
    /\ pc = "failed"
    /\ log = <<Ev("listUnauth", 0, "throw")>>
    /\ failure = Some("action-failed")
    /\ exitCode = 1

IsExtract(e) == e.op \in {"extractZip", "extractTar"}

\* C10: the archive extracted is the file downloaded for the chosen target
\* and verified present and non-empty; downloaded may hold an earlier
\* candidate's unverified file only while target is unset, and then
\* nothing is extracted or registered.
C10_ExtractsVerifiedDownload ==
    /\ pc = "extract" =>
          /\ ~IsNull(target)
          /\ ~IsNull(downloaded)
          /\ Val(downloaded).state = "ok"
          /\ possibleTargets[Val(downloaded).cand] = Val(target)
    /\ \A i \in 1..Len(log) : IsExtract(log[i]) =>
          /\ ~IsNull(target)
          /\ possibleTargets[log[i].n] = Val(target)
          /\ \E j \in 1..(i - 1) : log[j] = Ev("download", log[i].n, "ok")
    /\ ~IsNull(extracted) =>
          /\ Val(extracted).src.state = "ok"
          /\ Val(extracted).src = Val(downloaded)
    /\ \A e \in toolCache : e.dir.src.state = "ok"
    /\ (IsNull(target) /\ ~IsNull(downloaded)) =>
          /\ Val(downloaded).state \in {"missing", "empty"}
          /\ \A i \in 1..Len(log) : ~IsExtract(log[i])
          /\ pc \in {"loop", "exited"}

\* C10 witness: the first candidate's file was empty, the second download
\* threw; downloaded still holds the first file and the run has failed.
C10_Witness ==
    /\ pc = "exited"
    /\ failure = Some("download")
    /\ ~IsNull(downloaded)
    /\ Val(downloaded) = File(1, "empty")
    /\ Len(Downloads) = 2
    /\ Downloads[2].res = "throw"

====
